---- MODULE Spec2Model ----
(***************************************************************************)
(* Model of Python/21_Transforms_and_Resampling.ipynb and circle.yml.      *)
(*                                                                         *)
(* Numbers.  Python floats are fixed-point integers: a physical coordinate *)
(* is held in 1/CoordScale units (0.2 is 20, 3.1 is 310) and a matrix      *)
(* entry in 1/MatScale units (0.7 is 700).  A matrix-vector product is     *)
(* rounded to the nearest coordinate unit.                                 *)
(*                                                                         *)
(* Samples.  An image is its geometry plus a description of its content,   *)
(* and SampleAt reads one sample of it.  A sample of the GridSource image  *)
(* is abstracted to its own grid index, so that the sample an output pixel *)
(* holds tells which input location it was read from.                      *)
(***************************************************************************)
EXTENDS Integers, Sequences, FiniteSets, TLC

VARIABLES
    pc,          \* notebook: the next statement group to execute
    translation, \* notebook global `translation`
    affine,      \* notebook global `affine`
    composite,   \* notebook global `composite`
    grid,        \* notebook global `grid`
    resampled,   \* notebook global `resampled`
    figures,     \* matplotlib figures by title (plt.figure(title, ...))
    tc,          \* transform API: the composite being built
    notebooks,   \* CI: outcome of nbconvert on each notebook, in ls order
    ci_i,        \* CI: number of loop iterations done
    ci_status    \* CI: exit status of the last command run ($?)

vars == <<pc, translation, affine, composite, grid, resampled, figures,
          tc, notebooks, ci_i, ci_status>>

nbvars == <<pc, translation, affine, composite, grid, resampled, figures>>
civars == <<notebooks, ci_i, ci_status>>

(***************************************************************************)
(* Bounds of the model.                                                    *)
(***************************************************************************)
\* points checked have physical coordinates -MaxCoord..MaxCoord
MaxCoord == 1
\* samples checked lie within Window pixels of either end of each axis
Window == 1
\* children of the composite built through the transform API
MaxChildren == 3
\* notebooks the CI loop runs over
MaxNotebooks == 5

(***************************************************************************)
(* Number representation.                                                  *)
(***************************************************************************)
CoordScale == 100
MatScale == 1000

\* round-to-nearest division by MatScale
RoundMat(n) == (2 * n + MatScale) \div (2 * MatScale)

Phys(n) == n * CoordScale

\* a negation that is lost (mutant)
NegLost(v) == v
\* -1*np.array(v)
Neg(v) == <<0 - v[1], 0 - v[2]>>
Add(u, v) == <<u[1] + v[1], u[2] + v[2]>>
Sub(u, v) == <<u[1] - v[1], u[2] - v[2]>>

\* row-major 2x2 matrix m (entries in 1/MatScale) times vector v
MatVec(m, v) ==
    <<RoundMat(m[1] * v[1] + m[2] * v[2]), RoundMat(m[3] * v[1] + m[4] * v[2])>>

\* np.dot of two row-major 2x2 matrices, both in 1/MatScale
MatMul(a, b) ==
    <<RoundMat(a[1] * b[1] + a[2] * b[3]), RoundMat(a[1] * b[2] + a[2] * b[4]),
      RoundMat(a[3] * b[1] + a[4] * b[3]), RoundMat(a[3] * b[2] + a[4] * b[4])>>

IdentityMatrix == <<MatScale, 0, 0, MatScale>>
Zero2 == <<0, 0>>

\* np.cos and np.sin of -pi*degrees/180, in 1/MatScale, for the angles used
CosTable(d) ==
    CASE d = 0 -> 1000
      [] d = 15 -> 966
      [] d = 20 -> 940
      [] d = 90 -> 0

SinTable(d) ==
    CASE d = 0 -> 0
      [] d = 15 -> 259
      [] d = 20 -> 342
      [] d = 90 -> 1000

Abs(n) == IF n < 0 THEN 0 - n ELSE n
\* radians = -np.pi * degrees / 180.
CosRad(degrees) == CosTable(Abs(degrees))
SinRad(degrees) == IF degrees < 0 THEN SinTable(Abs(degrees))
                   ELSE 0 - SinTable(degrees)

(***************************************************************************)
(* Transform objects (sitk.Transform and its subclasses).                  *)
(***************************************************************************)
dimension == 2

NoTransform ==
    [kind |-> "None", offset |-> Zero2, matrix |-> IdentityMatrix,
     center |-> Zero2, children |-> <<>>]

\* sitk.Transform(dimension, sitk.sitkIdentity)
IdentityTransform == [NoTransform EXCEPT !.kind = "Identity"]

\* sitk.TranslationTransform(dimension): zero offset
TranslationTransform == [NoTransform EXCEPT !.kind = "Translation"]

\* sitk.AffineTransform(dimension): identity matrix, zero translation, center 0
AffineTransform == [NoTransform EXCEPT !.kind = "Affine"]

\* sitk.Transform(dimension, sitk.sitkComposite): no children
CompositeTransform == [NoTransform EXCEPT !.kind = "Composite"]

\* translation.SetOffset(o), translation.SetParameters(o)
SetOffset(t, o) == [t EXCEPT !.offset = o]
\* translation.GetParameters(): the offset
GetParameters(t) == t.offset
\* affine.SetTranslation(v)
SetTranslation(t, v) == [t EXCEPT !.offset = v]
\* affine.GetMatrix(), affine.SetMatrix(m)
GetMatrix(t) == t.matrix
SetMatrix(t, m) == [t EXCEPT !.matrix = m]

\* composite.AddTransform(t): t becomes the last child
AddTransform(c, t) == [c EXCEPT !.children = Append(@, t)]

Front(s) == SubSeq(s, 1, Len(s) - 1)
Last(s) == s[Len(s)]

\* M(p - center) + translation + center
AffinePoint(t, p) ==
    Add(Add(MatVec(t.matrix, Sub(p, t.center)), t.offset), t.center)

RECURSIVE TransformPoint(_, _)
RECURSIVE ApplyChildren(_, _)
RECURSIVE ApplyChildrenForward(_, _)

\* the children applied in insertion order, first added first
ApplyChildrenForward(children, p) ==
    IF children = <<>> THEN p
    ELSE ApplyChildrenForward(Tail(children), TransformPoint(Head(children), p))

\* a composite maps p through its most recently added child first
ApplyChildren(children, p) ==
    IF children = <<>> THEN p
    ELSE ApplyChildren(Front(children), TransformPoint(Last(children), p))

\* transform.TransformPoint(point)
TransformPoint(t, p) ==
    CASE t.kind = "Identity" -> p
      [] t.kind = "Translation" -> Add(p, t.offset)
      [] t.kind = "Affine" -> AffinePoint(t, p)
      [] t.kind = "Composite" -> ApplyChildren(t.children, p)

(***************************************************************************)
(* Images (sitk.Image): geometry plus content.                             *)
(***************************************************************************)
Size == 250
default_value == 100

NoImage ==
    [size |-> <<0, 0>>, spacing |-> <<0, 0>>, origin |-> Zero2,
     direction |-> <<1, 0, 0, 1>>, content |-> [op |-> "None"]]

\* sitk.GridSource(size=(250, 250), ..., spacing=(0.2, 0.2)): origin 0,
\* identity direction
GridSource ==
    [size |-> <<Size, Size>>, spacing |-> <<20, 20>>, origin |-> Zero2,
     direction |-> <<1, 0, 0, 1>>, content |-> [op |-> "GridSource"]]

\* direction cosine matrix d (integer entries) times v, and its transpose
DirVec(d, v) == <<d[1] * v[1] + d[2] * v[2], d[3] * v[1] + d[4] * v[2]>>
DirTVec(d, v) == <<d[1] * v[1] + d[3] * v[2], d[2] * v[1] + d[4] * v[2]>>

\* the physical point of grid index idx
IndexToPhysical(img, idx) ==
    Add(img.origin,
        DirVec(img.direction,
               <<idx[1] * img.spacing[1], idx[2] * img.spacing[2]>>))

\* the physical point y along the image's axes, measured from its origin
AlongAxes(img, y) == DirTVec(img.direction, Sub(y, img.origin))

\* y lies in the image's support: continuous index in [-0.5, size - 0.5)
InsideAxis(img, a, k) ==
    /\ 2 * a[k] >= 0 - img.spacing[k]
    /\ 2 * a[k] < (2 * img.size[k] - 1) * img.spacing[k]
IsInside(img, y) ==
    LET a == AlongAxes(img, y) IN InsideAxis(img, a, 1) /\ InsideAxis(img, a, 2)

\* y is the centre of a pixel: its continuous index is an integer
OnGrid(img, y) ==
    LET a == AlongAxes(img, y)
    IN a[1] % img.spacing[1] = 0 /\ a[2] % img.spacing[2] = 0

PhysicalToIndex(img, y) ==
    LET a == AlongAxes(img, y)
    IN <<a[1] \div img.spacing[1], a[2] \div img.spacing[2]>>

\* samples: a pixel of the source, a value interpolated between pixels at a
\* physical point, or the fill value
Pixel(idx) == [kind |-> "pixel", at |-> idx, value |-> 0]
Interpolated(y) == [kind |-> "interpolated", at |-> y, value |-> 0]
Fill(v) == [kind |-> "fill", at |-> Zero2, value |-> v]

RECURSIVE SampleAt(_, _)

\* one output sample of Resample: the output's physical point x is mapped by
\* the transform into the input; outside the support the fill value is
\* written, inside the input is interpolated (exact at a pixel centre)
ResampleSample(input, transform, default, x) ==
    LET y == TransformPoint(transform, x)
    IN IF ~IsInside(input, y) THEN Fill(default)
       ELSE IF OnGrid(input, y) THEN SampleAt(input, PhysicalToIndex(input, y))
       ELSE Interpolated(y)

\* img.GetPixel(idx)
SampleAt(img, idx) ==
    CASE img.content.op = "GridSource" -> Pixel(idx)
      [] img.content.op = "Resample" ->
            ResampleSample(img.content.input, img.content.transform,
                           img.content.default_value,
                           IndexToPhysical(img, idx))

\* sitk.Resample(image, reference_image, transform, interpolator, default_value)
Resample(image, reference_image, transform, interpolator, default) ==
    [size |-> reference_image.size, spacing |-> reference_image.spacing,
     origin |-> reference_image.origin, direction |-> reference_image.direction,
     content |-> [op |-> "Resample", input |-> image, transform |-> transform,
                  interpolator |-> interpolator, default_value |-> default]]

\* grid indices whose samples are checked: both ends and the middle of an axis
Idx1 ==
    (0..Window) \cup ((Size - 1 - Window)..(Size - 1))
        \cup ((Size \div 2 - Window)..(Size \div 2 + Window))
SampleIdx == Idx1 \X Idx1

SameSamples(a, b) ==
    /\ a.size = b.size
    /\ \A idx \in SampleIdx : SampleAt(a, idx) = SampleAt(b, idx)

\* points at which transforms are compared
Coords == {Phys(n) : n \in (0 - MaxCoord)..MaxCoord}
Points == Coords \X Coords

\* translate = (8.0, 16.0); rotate = 20.0
translate == <<Phys(8), Phys(16)>>
rotate == 20

\* translation.SetOffset(-1*np.array(translate)) on a new TranslationTransform
NegTranslation == SetOffset(TranslationTransform, Neg(translate))

(***************************************************************************)
(* The notebook's functions.  A call is modelled by its result together    *)
(* with the state of its arguments after it: field `returns` is the value  *)
(* returned, `transform` and `image` are the caller's objects after the    *)
(* call.                                                                   *)
(***************************************************************************)
Titles ==
    {"Grid Input", "Resampled Translation", "Inverse Resampled", "Translated",
     "Scaled", "Rotated", "Sheared", "Single Transform", "Two Transforms",
     "Composite transform in reverse order"}

\* myshow(img, title): plt.figure(title, ...) draws img in the figure so named
myshow(figs, img, title) == [figs EXCEPT ![title] = img]

\* a resample that writes its output over the input image (mutant)
resample_inplace(image, transform) ==
    LET out == Resample(image, image, transform, "sitkCosineWindowedSinc",
                        default_value)
    IN [returns |-> out, image |-> out, transform |-> transform]

\* a resample whose fill value is 0 (mutant)
resample_zero_fill(image, transform) ==
    [returns |-> Resample(image, image, transform, "sitkCosineWindowedSinc", 0),
     image |-> image, transform |-> transform]

\* a resample that applies the transform in the input-to-output direction,
\* reading the output at x from x - offset (mutant)
resample_forward(image, transform) ==
    [returns |-> Resample(image, image,
                          [transform EXCEPT !.offset = Neg(@)],
                          "sitkCosineWindowedSinc", default_value),
     image |-> image, transform |-> transform]

\* a resample whose reference grid is twice as coarse as the image's (mutant)
resample_other_reference(image, transform) ==
    [returns |-> Resample(image,
                          [image EXCEPT !.spacing = <<2 * @[1], 2 * @[2]>>],
                          transform, "sitkCosineWindowedSinc", default_value),
     image |-> image, transform |-> transform]

\* def resample(image, transform)
resample(image, transform) ==
    [returns |-> Resample(image, image, transform, "sitkCosineWindowedSinc",
                          default_value),
     image |-> image, transform |-> transform]

\* sitk.AffineTransform(transform): a new object with the same values
AffineTransformCopy(transform) == transform

\* affine_translate whose new_transform is the argument itself (mutant)
affine_translate_alias(transform, x_translation, y_translation) ==
    LET new_transform ==
            SetTranslation(transform, <<x_translation, y_translation>>)
        r == resample(grid, new_transform)
    IN [returns |-> r.transform, transform |-> r.transform, image |-> r.image,
        figures |-> myshow(figures, r.returns, "Translated")]

\* def affine_translate(transform, x_translation=3.1, y_translation=4.6)
affine_translate(transform, x_translation, y_translation) ==
    LET new_transform ==
            SetTranslation(AffineTransformCopy(transform),
                           <<x_translation, y_translation>>)
        r == resample(grid, new_transform)
    IN [returns |-> r.transform, transform |-> transform, image |-> r.image,
        figures |-> myshow(figures, r.returns, "Translated")]

\* def affine_scale(transform, x_scale=3.0, y_scale=0.7)
affine_scale(transform, x_scale, y_scale) ==
    LET matrix0 == GetMatrix(transform)
        matrix == <<x_scale, matrix0[2], matrix0[3], y_scale>>
        new_transform == SetMatrix(AffineTransformCopy(transform), matrix)
        r == resample(grid, new_transform)
    IN [returns |-> r.transform, transform |-> transform, image |-> r.image,
        figures |-> myshow(figures, r.returns, "Scaled")]

\* affine_rotate that never stores the rotated matrix (mutant)
affine_rotate_unset(transform, degrees) ==
    LET new_transform == AffineTransformCopy(transform)
        r == resample(grid, new_transform)
    IN [returns |-> r.transform, transform |-> transform, image |-> r.image,
        figures |-> myshow(figures, r.returns, "Rotated")]

\* def affine_rotate(transform, degrees=15.0)
affine_rotate(transform, degrees) ==
    LET matrix == GetMatrix(transform)
        rotation == <<CosRad(degrees), 0 - SinRad(degrees),
                      SinRad(degrees), CosRad(degrees)>>
        new_matrix == MatMul(rotation, matrix)
        new_transform == SetMatrix(AffineTransformCopy(transform), new_matrix)
        r == resample(grid, new_transform)
    IN [returns |-> r.transform, transform |-> transform, image |-> r.image,
        figures |-> myshow(figures, r.returns, "Rotated")]

\* def affine_shear(transform, x_shear=0.3, y_shear=0.1)
affine_shear(transform, x_shear, y_shear) ==
    LET matrix0 == GetMatrix(transform)
        matrix == <<matrix0[1], 0 - x_shear, 0 - y_shear, matrix0[4]>>
        new_transform == SetMatrix(AffineTransformCopy(transform), matrix)
        r == resample(grid, new_transform)
    IN [returns |-> r.transform, transform |-> transform, image |-> r.image,
        figures |-> myshow(figures, r.returns, "Sheared")]

(***************************************************************************)
(* The notebook, executed top to bottom.  pc is the notebook line of the   *)
(* next statement; Done is past the last cell.  A widget built by interact *)
(* calls its function once with the defaults, and again for each slider    *)
(* move made before the next cell runs.                                    *)
(***************************************************************************)
Done == 463

NbIdle ==
    /\ pc = Done
    /\ translation = NoTransform
    /\ affine = NoTransform
    /\ composite = NoTransform
    /\ grid = NoImage
    /\ resampled = NoImage
    /\ figures = [t \in Titles |-> NoImage]

CiIdle ==
    /\ notebooks = <<>>
    /\ ci_i = 0
    /\ ci_status = 0

Init ==
    /\ pc = 87
    /\ translation = NoTransform
    /\ affine = NoTransform
    /\ composite = NoTransform
    /\ grid = NoImage
    /\ resampled = NoImage
    /\ figures = [t \in Titles |-> NoImage]
    /\ tc = CompositeTransform
    /\ CiIdle

\* translation = sitk.TranslationTransform(dimension)
NewTranslation ==
    /\ pc = 87
    /\ translation' = TranslationTransform
    /\ pc' = 95
    /\ UNCHANGED <<affine, composite, grid, resampled, figures, tc, civars>>

\* translation.SetParameters((3.1, 4.4))
SetParameters ==
    /\ pc = 95
    /\ translation' = SetOffset(translation, <<310, 440>>)
    /\ pc' = 116
    /\ UNCHANGED <<affine, composite, grid, resampled, figures, tc, civars>>

\* affine = sitk.AffineTransform(dimension)
NewAffine ==
    /\ pc \in {116, 278, 309, 342, 373, 403, 430}
    /\ affine' = AffineTransform
    /\ pc' = CASE pc = 116 -> 123 [] pc = 278 -> 280 [] pc = 309 -> 311
               [] pc = 342 -> 344 [] pc = 373 -> 375 [] pc = 403 -> 404
               [] pc = 430 -> 431
    /\ UNCHANGED <<translation, composite, grid, resampled, figures, tc, civars>>

\* affine.SetTranslation((3.1, 4.4))
SetAffineTranslation ==
    /\ pc = 123
    /\ affine' = SetTranslation(affine, <<310, 440>>)
    /\ pc' = 196
    /\ UNCHANGED <<translation, composite, grid, resampled, figures, tc, civars>>

\* grid = sitk.GridSource(...); myshow(grid, 'Grid Input')
MakeGrid ==
    /\ pc = 196
    /\ grid' = GridSource
    /\ figures' = myshow(figures, grid', "Grid Input")
    /\ pc' = 229
    /\ UNCHANGED <<translation, affine, composite, resampled, tc, civars>>

\* translation.SetOffset((3.1, 4.6))
SetTranslationOffset ==
    /\ pc = 229
    /\ translation' = SetOffset(translation, <<310, 460>>)
    /\ pc' = 231
    /\ UNCHANGED <<affine, composite, grid, resampled, figures, tc, civars>>

\* translation.SetOffset(-1*np.array(translation.GetParameters()))
NegateOffset ==
    /\ pc = 250
    /\ translation' = SetOffset(translation, Neg(GetParameters(translation)))
    /\ pc' = 252
    /\ UNCHANGED <<affine, composite, grid, resampled, figures, tc, civars>>

\* resampled = resample(grid, translation)
ResampleTranslation ==
    /\ pc \in {231, 252}
    /\ LET r == resample(grid, translation)
       IN /\ resampled' = r.returns
          /\ grid' = r.image
          /\ translation' = r.transform
    /\ pc' = pc + 1
    /\ UNCHANGED <<affine, composite, figures, tc, civars>>

\* resampled = resample(grid, affine)
ResampleAffine ==
    /\ pc = 407
    /\ LET r == resample(grid, affine)
       IN /\ resampled' = r.returns
          /\ grid' = r.image
          /\ affine' = r.transform
    /\ pc' = pc + 1
    /\ UNCHANGED <<translation, composite, figures, tc, civars>>

\* resampled = resample(grid, composite)
ResampleComposite ==
    /\ pc \in {437, 460}
    /\ LET r == resample(grid, composite)
       IN /\ resampled' = r.returns
          /\ grid' = r.image
          /\ composite' = r.transform
    /\ pc' = pc + 1
    /\ UNCHANGED <<translation, affine, figures, tc, civars>>

CellTitle(line) ==
    CASE line = 232 -> "Resampled Translation"
      [] line = 253 -> "Inverse Resampled"
      [] line = 408 -> "Single Transform"
      [] line = 438 -> "Two Transforms"
      [] line = 461 -> "Composite transform in reverse order"

\* myshow(resampled, '<title>')
Show ==
    /\ pc \in {232, 253, 408, 438, 461}
    /\ figures' = myshow(figures, resampled, CellTitle(pc))
    /\ pc' = CASE pc = 232 -> 250 [] pc = 253 -> 278 [] pc = 408 -> 426
               [] pc = 438 -> 456 [] pc = 461 -> Done
    /\ UNCHANGED <<translation, affine, composite, grid, resampled, tc, civars>>

\* slider values: the ends of each slider's range, and 0 where it is in range
TranslationSlider == {0 - 500, 0, 500}
ScaleSlider == {200, 5000}
DegreesSlider == {0 - 90, 0, 90}
ShearSlider == {100, 2000}

\* the call the widget of the interact at `line` makes with slider values a, b
WidgetCall(line, a, b) ==
    CASE line = 280 -> affine_translate(affine, a, b)
      [] line = 311 -> affine_scale(affine, a, b)
      [] line = 344 -> affine_rotate(affine, a)
      [] line = 375 -> affine_shear(affine, a, b)

SliderValues(line) ==
    CASE line = 280 -> TranslationSlider \X TranslationSlider
      [] line = 311 -> ScaleSlider \X ScaleSlider
      [] line = 344 -> DegreesSlider \X {0}
      [] line = 375 -> ShearSlider \X ShearSlider

Defaults(line) ==
    CASE line = 280 -> <<310, 460>>
      [] line = 311 -> <<3000, 700>>
      [] line = 344 -> <<15, 0>>
      [] line = 375 -> <<300, 100>>

\* the effect of a widget call: the value returned is dropped
Widget(line, v) ==
    LET r == WidgetCall(line, v[1], v[2])
    IN /\ affine' = r.transform
       /\ grid' = r.image
       /\ figures' = r.figures

\* interact(affine_..., transform=fixed(affine), ...): the first call
Interact ==
    /\ pc \in {280, 311, 344, 375}
    /\ Widget(pc, Defaults(pc))
    /\ pc' = CASE pc = 280 -> 309 [] pc = 311 -> 342 [] pc = 344 -> 373
               [] pc = 375 -> 403
    /\ UNCHANGED <<translation, composite, resampled, tc, civars>>

\* a slider of the widget above is moved
Slide ==
    /\ pc \in {309, 342, 373, 403}
    /\ LET line == CASE pc = 309 -> 280 [] pc = 342 -> 311 [] pc = 373 -> 344
                     [] pc = 403 -> 375
       IN \E v \in SliderValues(line) : Widget(line, v)
    /\ UNCHANGED <<pc, translation, composite, resampled, tc, civars>>

\* affine = affine_translate(affine, translate[0], translate[1])
TranslateAffine ==
    /\ pc = 404
    /\ LET r == affine_translate(affine, translate[1], translate[2])
       IN /\ affine' = r.returns
          /\ grid' = r.image
          /\ figures' = r.figures
    /\ pc' = 405
    /\ UNCHANGED <<translation, composite, resampled, tc, civars>>

\* affine = affine_rotate(affine, rotate)
RotateAffine ==
    /\ pc \in {405, 431}
    /\ LET r == affine_rotate(affine, rotate)
       IN /\ affine' = r.returns
          /\ grid' = r.image
          /\ figures' = r.figures
    /\ pc' = IF pc = 405 THEN 407 ELSE 433
    /\ UNCHANGED <<translation, composite, resampled, tc, civars>>

\* composite = sitk.Transform(dimension, sitk.sitkComposite)
NewComposite ==
    /\ pc \in {426, 434, 456}
    /\ composite' = CompositeTransform
    /\ pc' = pc + 1
    /\ UNCHANGED <<translation, affine, grid, resampled, figures, tc, civars>>

\* translation = sitk.TranslationTransform(dimension)
\* translation.SetOffset(-1*np.array(translate))
NewNegTranslation ==
    /\ pc = 427
    /\ translation' = NegTranslation
    /\ pc' = 429
    /\ UNCHANGED <<affine, composite, grid, resampled, figures, tc, civars>>

\* composite.AddTransform(translation)
AddTranslation ==
    /\ pc \in {429, 433, 458}
    /\ composite' = AddTransform(composite, translation)
    /\ pc' = CASE pc = 429 -> 430 [] pc = 433 -> 434 [] pc = 458 -> 460
    /\ UNCHANGED <<translation, affine, grid, resampled, figures, tc, civars>>

\* composite.AddTransform(affine)
AddAffine ==
    /\ pc \in {435, 457}
    /\ composite' = AddTransform(composite, affine)
    /\ pc' = IF pc = 435 THEN 437 ELSE 458
    /\ UNCHANGED <<translation, affine, grid, resampled, figures, tc, civars>>

Next ==
    \/ NewTranslation
    \/ SetParameters
    \/ NewAffine
    \/ SetAffineTranslation
    \/ MakeGrid
    \/ SetTranslationOffset
    \/ NegateOffset
    \/ ResampleTranslation
    \/ ResampleAffine
    \/ ResampleComposite
    \/ Show
    \/ Interact
    \/ Slide
    \/ TranslateAffine
    \/ RotateAffine
    \/ NewComposite
    \/ NewNegTranslation
    \/ AddTranslation
    \/ AddAffine

Spec == Init /\ [][Next]_vars

(***************************************************************************)
(* Transform API specification: composites built by AddTransform from a    *)
(* pool of transforms, and points mapped through them.                     *)
(***************************************************************************)
\* the rotation affine_rotate(sitk.AffineTransform(dimension), degrees) returns
Rotation(degrees) == affine_rotate(AffineTransform, degrees).returns

Pool ==
    { IdentityTransform,
      NegTranslation,
      SetOffset(TranslationTransform, <<310, 460>>),
      Rotation(rotate),
      Rotation(90),
      affine_translate(Rotation(rotate), translate[1], translate[2]).returns,
      AddTransform(AddTransform(CompositeTransform, Rotation(rotate)),
                   NegTranslation) }

InitT ==
    /\ tc = CompositeTransform
    /\ NbIdle
    /\ CiIdle

\* composite = sitk.Transform(dimension, sitk.sitkComposite)
T_New ==
    /\ tc # CompositeTransform
    /\ tc' = CompositeTransform
    /\ UNCHANGED <<nbvars, civars>>

\* composite.AddTransform(t)
T_AddTransform ==
    /\ Len(tc.children) < MaxChildren
    /\ \E t \in Pool : tc' = AddTransform(tc, t)
    /\ UNCHANGED <<nbvars, civars>>

NextT == T_New \/ T_AddTransform

SpecT == InitT /\ [][NextT]_vars

\* C1: a composite built by AddTransform(t1), ..., AddTransform(tn) maps every
\* point p to t1(t2(...tn(p)...)): the first child added is applied last, the
\* most recently added child first.
C1_ReverseOrder ==
    \A p \in Points :
        Len(tc.children) >= 1 =>
            TransformPoint(tc, p) =
                TransformPoint(Head(tc.children),
                    TransformPoint([tc EXCEPT !.children = Tail(@)], p))

\* a composite of a rotation then a translation, whose two orders differ
C1_Witness ==
    /\ Len(tc.children) = 2
    /\ tc.children[1] = Rotation(rotate)
    /\ tc.children[2] = NegTranslation
    /\ \E p \in Points :
          TransformPoint(tc, p) # ApplyChildrenForward(tc.children, p)

\* C5: for a translation A with non-zero offset and a rotation B by a non-zero
\* angle, the composites built by AddTransform(A), AddTransform(B) and by
\* AddTransform(B), AddTransform(A) map at least one point differently, and
\* the two resampled grids differ in at least one sample.
IsNonZeroTranslation(t) == t.kind = "Translation" /\ t.offset # Zero2
IsBuiltRotation(t) == t \in {Rotation(rotate), Rotation(90)}
Swapped(c) ==
    AddTransform(AddTransform(CompositeTransform, c.children[2]), c.children[1])
C5_OrderMatters ==
    (/\ Len(tc.children) = 2
     /\ IsNonZeroTranslation(tc.children[1])
     /\ IsBuiltRotation(tc.children[2]))
    => /\ \E p \in Points :
              TransformPoint(tc, p) # TransformPoint(Swapped(tc), p)
       /\ ~SameSamples(resample(GridSource, tc).returns,
                       resample(GridSource, Swapped(tc)).returns)

\* the translation by -(8, 16) followed by the rotation by 20 degrees
C5_Witness ==
    /\ tc.children = <<NegTranslation, Rotation(rotate)>>
    /\ TransformPoint(tc, Zero2) = Neg(translate)
    /\ TransformPoint(Swapped(tc), Zero2) # Neg(translate)

(***************************************************************************)
(* Claims about the notebook run (Spec).                                   *)
(***************************************************************************)
Resampled(img) == img.content.op = "Resample"

\* the sample of the grid image at physical point y of its support
GridValueAt(y) ==
    IF y[1] % 20 = 0 /\ y[2] % 20 = 0
    THEN Pixel(<<y[1] \div 20, y[2] \div 20>>)
    ELSE Interpolated(y)

\* physical point y is in the grid's support: [-0.1, 49.9) on both axes
InGridSupport(y) ==
    \A k \in 1..2 : y[k] >= 0 - 10 /\ y[k] < Size * 20 - 10

\* image f holds at every checked output point x with x + o in the grid's
\* support the grid's value at x + o
ReadsFrom(f, o) ==
    /\ Resampled(f)
    /\ \A idx \in SampleIdx :
          LET y == Add(<<20 * idx[1], 20 * idx[2]>>, o)
          IN InGridSupport(y) => SampleAt(f, idx) = GridValueAt(y)

\* C2: the image resample(grid, t) returns for a translation t by o holds at
\* every output point x whose x + o is in the source's support the source's
\* value at x + o, so the content appears shifted by -o, that is by
\* o/spacing pixels: for the translation of lines 229 and 250 and for the
\* affine translation of line 404.
C2_OutputToInput ==
    /\ pc \in {232, 253} => ReadsFrom(resampled, translation.offset)
    /\ pc = 250 => ReadsFrom(figures["Resampled Translation"], translation.offset)
    /\ pc = 278 => ReadsFrom(figures["Inverse Resampled"], translation.offset)
    /\ pc = 405 => ReadsFrom(figures["Translated"], affine.offset)

\* the grid translated by (8.0, 16.0), 40 and 80 pixels, after the one
\* translated by (3.1, 4.6)
C2_Witness ==
    /\ pc = 405
    /\ affine.offset = translate
    /\ SampleAt(figures["Translated"], <<0, 0>>) = Pixel(<<40, 80>>)
    /\ SampleAt(figures["Resampled Translation"], <<0, 0>>)
           = Interpolated(<<310, 460>>)

\* C3: the composite the 'Two Transforms' cell resamples with maps every
\* point as the affine transform of the 'Single Transform' cell does, and the
\* two resampled images are equal.
C3_SameTransform ==
    Resampled(figures["Two Transforms"]) =>
        /\ \A p \in Points :
              TransformPoint(figures["Two Transforms"].content.transform, p)
                  = TransformPoint(
                        figures["Single Transform"].content.transform, p)
        /\ SameSamples(figures["Two Transforms"], figures["Single Transform"])

IsIdentityMapping(t) ==
    /\ t.kind \in {"Identity", "Translation", "Affine"}
    /\ t.offset = Zero2
    /\ t.matrix = IdentityMatrix

C7_FillOutside ==
    \A title \in Titles :
        LET f == figures[title]
        IN Resampled(f) =>
            \A idx \in SampleIdx :
                LET y == TransformPoint(f.content.transform,
                                        <<20 * idx[1], 20 * idx[2]>>)
                IN IF InGridSupport(y)
                   THEN SampleAt(f, idx).kind \in {"pixel", "interpolated"}
                   ELSE SampleAt(f, idx) =
                            [kind |-> "fill", at |-> Zero2, value |-> 100]

\* the rotated grid of the last cell has samples of both sorts
C7_Witness ==
    LET f == figures["Composite transform in reverse order"]
    IN /\ Resampled(f)
       /\ \E idx \in SampleIdx : SampleAt(f, idx).kind = "fill"
       /\ \E idx \in SampleIdx : SampleAt(f, idx).kind # "fill"

RotateMatrix ==
    <<CosRad(rotate), 0 - SinRad(rotate), SinRad(rotate), CosRad(rotate)>>

\* C10: the affine_ helpers leave their argument as it was, whatever the
\* widget calls made, and return a copy in which only the translation
\* (affine_translate) or only the matrix (the other three) is changed.
C10_ArgumentUnchanged ==
    /\ pc \in {309, 342, 373, 403} => affine = AffineTransform
    /\ pc = 405 => affine = SetTranslation(AffineTransform, translate)
    /\ pc = 407 =>
          affine = SetMatrix(SetTranslation(AffineTransform, translate),
                             RotateMatrix)
    /\ \A title \in {"Scaled", "Rotated", "Sheared"} :
          Resampled(figures[title]) =>
              /\ figures[title].content.transform.kind = "Affine"
              /\ figures[title].content.transform.center = Zero2
              /\ figures[title].content.transform.offset =
                     IF title = "Rotated" /\ pc \in 407..432 THEN translate
                     ELSE Zero2
    /\ Resampled(figures["Translated"]) =>
          figures["Translated"].content.transform.matrix = IdentityMatrix

\* the widget of affine_translate has been called with (5.0, -5.0)
C10_Witness ==
    /\ pc = 309
    /\ figures["Translated"].content.transform.offset = <<500, 0 - 500>>
    /\ affine = AffineTransform

(***************************************************************************)
(* circle.yml, test.override:                                              *)
(*   for fn in $(ls *.ipynb); do jupyter nbconvert --execute $fn; done     *)
(* The step's exit status is that of the for loop: the status of the last  *)
(* command run in its body, 0 when the body never ran.                     *)
(***************************************************************************)
RECURSIVE Outcomes(_)
\* the exit statuses nbconvert may return on n notebooks
Outcomes(n) ==
    IF n = 0 THEN {<<>>}
    ELSE {Append(s, e) : s \in Outcomes(n - 1), e \in {0, 1}}

InitCI ==
    /\ notebooks \in UNION {Outcomes(n) : n \in 0..MaxNotebooks}
    /\ ci_i = 0
    /\ ci_status = 0
    /\ tc = CompositeTransform
    /\ NbIdle

\* one iteration: jupyter nbconvert --execute $fn
RunNotebook ==
    /\ ci_i < Len(notebooks)
    /\ ci_status' = notebooks[ci_i + 1]
    /\ ci_i' = ci_i + 1
    /\ UNCHANGED <<notebooks, nbvars, tc>>

NextCI == RunNotebook

SpecCI == InitCI /\ [][NextCI]_vars

LoopDone == ci_i = Len(notebooks)

\* C9: the step succeeds only if every notebook executed without error; a
\* failing notebook anywhere in the loop makes the step fail.
C9_AnyFailureFails ==
    LoopDone =>
        (ci_status = 0 <=> \A k \in 1..Len(notebooks) : notebooks[k] = 0)
====
